---- MODULE Spec2Model ----
(***************************************************************************)
(* RAGPrescriptionGenerator (inference-service/rag_prescription_generator  *)
(* .py): the knowledge base held after construction, the name map and the  *)
(* index derived from it, and generate() as a state machine over           *)
(* RESOLVING, GENERATING, FALLBACK, DONE and FAILED.                       *)
(*                                                                         *)
(* Spec starts from a constructed generator whose generate() is called;    *)
(* FairSpec adds the scheduling of its steps.  ServiceSpec starts where    *)
(* inference_service.py is imported: the Whisper model, __init__ with      *)
(* _load_data on the file it finds, then /generate-prescription requests.  *)
(* ConcSpec runs two threads in generate() on one generator.               *)
(* InteractionSpec is SmartPrescriptionSystem.check_drug_interactions      *)
(* (smart_prescription.py) and SymptomSpec is MedicalLLM.analyze_symptoms  *)
(* (medical_llm.py), each called on its own.                               *)
(*                                                                         *)
(* Condition names, symptoms and query texts are sequences of one-         *)
(* character strings, so that str.lower, str.strip and the substring test  *)
(* `a in b` are computed.  Drug names and the detail fields of a           *)
(* medication are only compared for equality (dict lookup) and are TLA+    *)
(* strings.  A Python dict is a record whose DOMAIN is its key set.        *)
(***************************************************************************)
EXTENDS Integers, Sequences, FiniteSets, TLC

VARIABLES
    raw_kb,             \* self._raw_kb: the valid items, in file order
    condition_by_name,  \* self._condition_by_name
    vector_store,       \* metadata of the indexed documents, in insertion order
    pc,                 \* position of the current generate() call
    transcription,      \* argument of the current call
    retrieved_docs,     \* local: what self.retriever.invoke returned
    condition_name,     \* local
    full_context,       \* local
    medications,        \* local
    llm_response,       \* local: what self.rag_chain.invoke returned
    awaiting,           \* rag_chain.invoke has been entered and has not returned
    llm_calls,          \* number of rag_chain.invoke calls of the current call
    fmt_calls,          \* number of _get_default_medication_details calls of the current call
    resolved_by,        \* how the current call obtained full_context
    path,               \* the positions the current call has been in, in order
    result,             \* value returned by the current call
    boot,               \* inference_service.py: position of the module's initialisation
    rag_generator,      \* inference_service.py: the module-level rag_generator
    kb_file,            \* medical_data.json as __init__ finds it, while __init__ runs
    init_error,         \* the exception RAGPrescriptionGenerator() raised, if any
    status,             \* HTTP status of the latest answer of /generate-prescription
    parked,             \* locals of a generate() call another thread is in
    interactions_pc,    \* position of the current check_drug_interactions() call
    drugs,              \* its argument
    interactions,       \* local: the list it builds and returns
    llm_analysis,       \* local: what self.llm.analyze_drug_interactions returned
    analysis_pc,        \* position of the current analyze_symptoms() call
    age,                \* its argument
    response,           \* local: what self._call_ollama returned
    analysis            \* the value analyze_symptoms returns

vars == <<raw_kb, condition_by_name, vector_store, pc, transcription,
          retrieved_docs, condition_name, full_context, medications,
          llm_response, awaiting, llm_calls, fmt_calls, resolved_by, path, result,
          boot, rag_generator, kb_file, init_error, status, parked,
          interactions_pc, drugs, interactions, llm_analysis,
          analysis_pc, age, response, analysis>>

\* the calls on a SmartPrescriptionSystem and on its MedicalLLM
advisory == <<interactions_pc, drugs, interactions, llm_analysis,
              analysis_pc, age, response, analysis>>

(***************************************************************************)
(* Bounds                                                                  *)
(***************************************************************************)
MaxKB == 2      \* largest number of entries in the knowledge base

(***************************************************************************)
(* Python strings                                                          *)
(***************************************************************************)
UpperCs == <<"A","B","C","D","E","F","G","H","I","J","K","L","M",
             "N","O","P","Q","R","S","T","U","V","W","X","Y","Z">>
LowerCs == <<"a","b","c","d","e","f","g","h","i","j","k","l","m",
             "n","o","p","q","r","s","t","u","v","w","x","y","z">>

\* str.lower on one character
LowerChar(c) ==
    IF \E i \in 1..Len(UpperCs) : UpperCs[i] = c
    THEN LowerCs[CHOOSE i \in 1..Len(UpperCs) : UpperCs[i] = c]
    ELSE c

\* str.lower
lower(s) == [i \in 1..Len(s) |-> LowerChar(s[i])]

\* str.strip: drop leading and trailing blanks
RECURSIVE lstrip(_)
lstrip(s) == IF s # <<>> /\ Head(s) = " " THEN lstrip(Tail(s)) ELSE s

RECURSIVE rstrip(_)
rstrip(s) ==
    IF s # <<>> /\ s[Len(s)] = " " THEN rstrip(SubSeq(s, 1, Len(s) - 1)) ELSE s

strip(s) == rstrip(lstrip(s))

\* the Python test `a in b` on strings
contains(b, a) ==
    \E i \in 0..(Len(b) - Len(a)) : SubSeq(b, i + 1, i + Len(a)) = a

\* dict.get(key, default)
Get(d, key, default) == IF key \in DOMAIN d THEN d[key] ELSE default

\* the range of a sequence
Range(s) == {s[i] : i \in 1..Len(s)}

(***************************************************************************)
(* Knowledge-base records (medical_data.json after _load_data)             *)
(***************************************************************************)
sFlu    == <<"F","l","u">>
sfluSp  == <<"f","l","u"," ">>
sCold   == <<"C","o","l","d">>
sGut    == <<"G","u","t">>
sOdd    == <<"O","d","d">>
sache   == <<"a","c","h","e">>
shot    == <<"h","o","t">>
sflu    == <<"f","l","u">>
sUnknown == <<"U","n","k","n","o","w","n">>

\* a suggested_drugs item: {"name": ...}, or {} when the name is missing
Drug(n) == [name |-> n]
NoNameDrug == [form |-> "tablet"]

eFlu    == [condition_name |-> sFlu, symptoms |-> <<shot, sache>>,
            general_advice |-> "rest",
            suggested_drugs |-> <<Drug("Acetaminophen"), Drug("Ibuprofen"),
                                  Drug("Naproxen")>>]
eFluDup == [condition_name |-> sfluSp, symptoms |-> <<shot>>,
            general_advice |-> "fluids", suggested_drugs |-> <<>>]
eCold   == [condition_name |-> sCold, symptoms |-> <<sache>>,
            suggested_drugs |-> <<Drug("Cetirizine"), NoNameDrug,
                                  Drug("ibuprofen"), Drug("Loratadine")>>]
eGut    == [condition_name |-> sGut, symptoms |-> <<sflu>>,
            general_advice |-> "drink",
            suggested_drugs |-> <<Drug("Antacid"), Drug("Ondansetron"),
                                  Drug("Loperamide"), Drug("Hydrocortisone Cream"),
                                  Drug("Dextromethorphan Syrup")>>]
eOdd    == [condition_name |-> sOdd, general_advice |-> "wait",
            suggested_drugs |-> <<NoNameDrug>>]

Entries == {eFlu, eFluDup, eCold, eGut, eOdd}

\* the knowledge bases: 1..MaxKB different records, in any order
KnowledgeBases ==
    UNION {{kb \in [1..n -> Entries] : \A i, j \in 1..n : i # j => kb[i] # kb[j]}
           : n \in 1..MaxKB}

\* the query texts
Queries ==
    {sFlu, sfluSp, sCold, sGut, sOdd, sache, shot, sflu,
     <<"F","L","U">>, <<"m","y"," ","a","c","h","e">>, <<"f","i","n","e">>}

(***************************************************************************)
(* Construction: __init__                                                  *)
(***************************************************************************)
\* _normalize
normalize(s) == IF s # <<>> THEN lower(strip(s)) ELSE <<>>

\* a map key that is lower-cased and not trimmed
KeyOfUntrimmed(item) == lower(Get(item, "condition_name", <<>>))

\* the key a dict comprehension gives to an item of _raw_kb
KeyOf(item) == lower(strip(Get(item, "condition_name", <<>>)))

\* a name map in which the first item of a key is kept
BuildConditionByNameFirst(kb) ==
    LET keyed == {i \in 1..Len(kb) : Get(kb[i], "condition_name", <<>>) # <<>>}
        keys  == {KeyOf(kb[i]) : i \in keyed}
    IN  [k \in keys |->
            kb[CHOOSE i \in keyed : /\ KeyOf(kb[i]) = k
                                    /\ \A j \in keyed : KeyOf(kb[j]) = k => j >= i]]

\* the dict comprehension of __init__: an item with a truthy condition_name is
\* stored under its key, a later item with the same key replacing an earlier one
BuildConditionByName(kb) ==
    LET keyed == {i \in 1..Len(kb) : Get(kb[i], "condition_name", <<>>) # <<>>}
        keys  == {KeyOf(kb[i]) : i \in keyed}
    IN  [k \in keys |->
            kb[CHOOSE i \in keyed : /\ KeyOf(kb[i]) = k
                                    /\ \A j \in keyed : KeyOf(kb[j]) = k => j <= i]]

\* _create_vector_store_from_items: one document per item, whose metadata is
\* the item's condition_name only
create_vector_store_from_items(items) ==
    [i \in 1..Len(items) |->
        [condition_name |-> Get(items[i], "condition_name", sUnknown)]]

(***************************************************************************)
(* The fallback table: _get_default_medication_details                     *)
(***************************************************************************)
Details(dosage, frequency, timing, duration, quantity, instructions) ==
    [dosage |-> dosage, frequency |-> frequency, timing |-> timing,
     duration |-> duration, quantity |-> quantity, instructions |-> instructions]

medication_defaults ==
    [d \in {"Acetaminophen", "Ibuprofen", "Cetirizine", "Loratadine", "Antacid",
            "Ondansetron", "Loperamide", "Naproxen", "Hydrocortisone Cream",
            "Dextromethorphan Syrup"} |->
        CASE d = "Acetaminophen" ->
                Details("500mg", "every 6 hours", "as needed for fever", "3 days", 12,
                        "Do not exceed 4000mg per day.")
          [] d = "Ibuprofen" ->
                Details("400mg", "twice daily", "with meals", "5 days", 10,
                        "Take with food to prevent stomach upset.")
          [] d = "Cetirizine" ->
                Details("10mg", "once daily", "in the evening", "7 days", 7,
                        "May cause drowsiness.")
          [] d = "Loratadine" ->
                Details("10mg", "once daily", "in the morning", "7 days", 7,
                        "Non-drowsy formula.")
          [] d = "Antacid" ->
                Details("10ml", "thrice daily", "after meals", "5 days", 1,
                        "Shake well before use.")
          [] d = "Ondansetron" ->
                Details("4mg", "twice daily", "as needed for nausea", "3 days", 6,
                        "Allow to dissolve on tongue.")
          [] d = "Loperamide" ->
                Details("2mg", "after each loose stool", "as needed", "2 days", 8,
                        "Do not exceed 16mg per day.")
          [] d = "Naproxen" ->
                Details("250mg", "twice daily", "with meals", "5 days", 10,
                        "For pain and inflammation.")
          [] d = "Hydrocortisone Cream" ->
                Details("1% cream", "twice daily", "morning and evening", "7 days", 1,
                        "Apply a thin layer to the affected area.")
          [] d = "Dextromethorphan Syrup" ->
                Details("10ml", "every 6 hours", "as needed for cough", "5 days", 1,
                        "For dry, non-productive cough only.")]

default_details ==
    Details("As directed", "As directed", "As directed", "As directed", 1,
            "Follow physician's instructions.")

\* a formatter that finds a row whatever the letter case of the name
get_default_medication_details_anycase(drug_name) ==
    IF drug_name = "ibuprofen"
    THEN medication_defaults["Ibuprofen"]
    ELSE Get(medication_defaults, drug_name, default_details)

\* a formatter whose Ibuprofen row carries half the tablets
get_default_medication_details_short(drug_name) ==
    IF drug_name = "Ibuprofen"
    THEN [medication_defaults["Ibuprofen"] EXCEPT !.quantity = 5]
    ELSE Get(medication_defaults, drug_name, default_details)

get_default_medication_details(drug_name) ==
    Get(medication_defaults, drug_name, default_details)

\* {"name": drug_name, **med_details}
WithName(drug_name, med_details) ==
    [k \in DOMAIN med_details \cup {"name"} |->
        IF k \in DOMAIN med_details THEN med_details[k] ELSE drug_name]

(***************************************************************************)
(* Values decoded from the backend's JSON text                             *)
(***************************************************************************)
JNull       == [t |-> "null"]
JInt        == [t |-> "int"]
JStr        == [t |-> "str"]
JList(xs)   == [t |-> "list", items |-> xs]
JEmptyObj   == [t |-> "obj", keys |-> {}]
JObjOther   == [t |-> "obj", keys |-> {"note"}]
JObjMeds(m) == [t |-> "obj", keys |-> {"medications"}, medications |-> m]

\* a medication object as the prompt asks for it
LlmMed(n) ==
    [name |-> n, dosage |-> "200mg", frequency |-> "once daily",
     timing |-> "after meals", duration |-> "2 days", quantity |-> 2,
     instructions |-> "none"]
\* the same without the required field dosage
LlmMedNoDosage(n) ==
    [name |-> n, frequency |-> "once daily", timing |-> "after meals",
     duration |-> "2 days", quantity |-> 2, instructions |-> "none"]
\* the same with a quantity that is text: the text is held under quantity_text,
\* so that no integer `quantity` is present
LlmMedTextQuantity(n) ==
    [name |-> n, dosage |-> "200mg", frequency |-> "once daily",
     timing |-> "after meals", duration |-> "2 days", quantity_text |-> "two",
     instructions |-> "none"]

\* what self.rag_chain.invoke can do: raise (the backend fails, the client
\* times out, JsonOutputParser rejects the text) or return the decoded value
Raises(why)  == [kind |-> "raise", why |-> why]
Returns(v)   == [kind |-> "value", value |-> v]

ChainOutcomes ==
    << Raises("backend error"),
       Raises("timeout"),
       Raises("unparsable text"),
       Returns(JNull),
       Returns(JEmptyObj),
       Returns(JObjOther),
       Returns(JList(<<LlmMed("Ibuprofen")>>)),
       Returns(JObjMeds(JNull)),
       Returns(JObjMeds(JInt)),
       Returns(JObjMeds(JStr)),
       Returns(JObjMeds(JList(<<>>))),
       Returns(JObjMeds(JList(<<LlmMedNoDosage("Ibuprofen")>>))),
       Returns(JObjMeds(JList(<<LlmMedTextQuantity("Ibuprofen")>>))),
       Returns(JObjMeds(JList(<<LlmMed("Ibuprofen"), LlmMed("Aspirin")>>))) >>

\* bool(v)
Truthy(v) ==
    CASE v.t = "null" -> FALSE
      [] v.t = "obj"  -> v.keys # {}
      [] v.t = "list" -> v.items # <<>>
      [] OTHER        -> TRUE

\* `'medications' in v` evaluates to True (for a list it is an element test,
\* for a number it raises: neither yields True)
HasMedicationsKey(v) == v.t = "obj" /\ "medications" \in v.keys

\* len(v) is defined
HasLen(v) == v.t \in {"list", "str", "obj"}

(***************************************************************************)
(* Results of generate()                                                   *)
(***************************************************************************)
ErrNoMatch   == "Could not find a matching condition in the knowledge base."
ErrNoContext == "Could not determine the medical context from the transcription."
ErrCritical  == "A critical error occurred during prescription generation."
DefaultAdvice == "Follow medication instructions carefully."

Error(msg) == [error |-> msg]
Success(advice, meds, cond) ==
    [general_advice |-> advice, medications |-> meds, condition |-> cond]

\* an exception that leaves generate() instead of being turned into a result
exception_escapes == [pc |-> "RAISED", result |-> [none |-> TRUE]]

\* lines 309-311: the outer except clause turns any exception raised inside
\* the try block into the returned error
outer_except == [pc |-> "FAILED", result |-> Error(ErrCritical)]

NoResult == [none |-> TRUE]
NoEntry  == [none |-> TRUE]
NoDocs   == [raised |-> FALSE, docs |-> <<>>]

\* locals of generate() computed from full_context (lines 263-264)
general_advice  == Get(full_context, "general_advice", DefaultAdvice)
suggested_drugs == Get(full_context, "suggested_drugs", <<>>)

(***************************************************************************)
(* Resolution                                                              *)
(***************************************************************************)
\* _find_best_by_text: the first item whose lower-cased name occurs in the
\* lower-cased text; failing that, the first item one of whose symptoms does
find_best_by_text(kb, text) ==
    LET t == lower(text)
        byName == {i \in 1..Len(kb) :
                     LET name == lower(Get(kb[i], "condition_name", <<>>))
                     IN  name # <<>> /\ contains(t, name)}
        bySymptom == {i \in 1..Len(kb) :
                        \E s \in Range(Get(kb[i], "symptoms", <<>>)) :
                            s # <<>> /\ contains(t, lower(s))}
        Min(S) == CHOOSE i \in S : \A j \in S : i <= j
    IN  IF byName # {} THEN kb[Min(byName)]
        ELSE IF bySymptom # {} THEN kb[Min(bySymptom)]
        ELSE NoEntry

\* the documents a retriever answer is made of: those of the index, and one
\* that carries no condition_name in its metadata
ForeignDoc == [source |-> "other"]
K == 3
Injective(f) == \A i, j \in DOMAIN f : i # j => f[i] # f[j]
RetrieverAnswers(store) ==
    LET cands == Range(store) \cup {ForeignDoc}
    IN  UNION {{a \in [1..n -> cands] : Injective(a)} : n \in 0..K}

(***************************************************************************)
(* The state after construction                                            *)
(***************************************************************************)
NoResponse == [kind |-> "none"]

\* no call of check_drug_interactions() or analyze_symptoms() is running
NoAnalysis == [none |-> TRUE]
NoAdvisoryCall ==
    /\ interactions_pc = "idle"
    /\ drugs = <<>>
    /\ interactions = <<>>
    /\ llm_analysis = NoAnalysis
    /\ analysis_pc = "idle"
    /\ age = 25
    /\ response = NoResponse
    /\ analysis = NoAnalysis

\* values of the module globals and of the locals of __init__
Generator == "RAGPrescriptionGenerator"
None      == "None"
NoFile    == [t |-> "unread"]
NoError   == "none"
NoStatus  == "none"
NoFrame   == [none |-> TRUE]

\* the locals of generate() and the history kept of a call
locals == <<pc, transcription, retrieved_docs, condition_name, full_context,
            medications, llm_response, awaiting, llm_calls, fmt_calls,
            resolved_by, path, result>>

\* no call of generate() is under way
IdleLocals ==
    /\ pc = "idle"
    /\ transcription = <<>>
    /\ retrieved_docs = NoDocs
    /\ condition_name = <<>>
    /\ full_context = NoEntry
    /\ medications = JList(<<>>)
    /\ llm_response = NoResponse
    /\ awaiting = FALSE
    /\ llm_calls = 0
    /\ fmt_calls = 0
    /\ resolved_by = "none"
    /\ path = <<>>
    /\ result = NoResult

Init ==
    /\ raw_kb \in KnowledgeBases
    /\ condition_by_name = BuildConditionByName(raw_kb)
    /\ vector_store = create_vector_store_from_items(raw_kb)
    /\ IdleLocals
    /\ boot = "serving"
    /\ rag_generator = Generator
    /\ kb_file = NoFile
    /\ init_error = NoError
    /\ status = NoStatus
    /\ parked = NoFrame
    /\ NoAdvisoryCall

construction == <<raw_kb, condition_by_name, vector_store>>

\* what generate() cannot reach: the module globals of inference_service.py,
\* the file __init__ reads, the answer of the endpoint, another thread's locals
outside == <<boot, rag_generator, kb_file, init_error, status, parked>>

(***************************************************************************)
(* generate()                                                              *)
(***************************************************************************)
\* generate(transcription) is entered on the constructed generator: its locals
\* are fresh
Enter(q) ==
    /\ pc = "idle"
    /\ pc' = "RESOLVING"
    /\ path' = <<"RESOLVING">>
    /\ transcription' = q
    /\ UNCHANGED <<advisory, construction, retrieved_docs, condition_name, full_context,
                   medications, llm_response, awaiting, llm_calls, fmt_calls,
                   resolved_by, result>>

\* a return that remembers the resolved entry under the name of the top hit
LeaveRemembering ==
    /\ pc \in {"DONE", "FAILED"}
    /\ pc' = "idle"
    /\ transcription' = <<>>
    /\ retrieved_docs' = NoDocs
    /\ condition_name' = <<>>
    /\ full_context' = NoEntry
    /\ medications' = JList(<<>>)
    /\ llm_response' = NoResponse
    /\ awaiting' = FALSE
    /\ llm_calls' = 0
    /\ fmt_calls' = 0
    /\ resolved_by' = "none"
    /\ path' = <<>>
    /\ result' = NoResult
    /\ condition_by_name' =
            IF resolved_by = "scan"
            THEN [k \in DOMAIN condition_by_name \cup {normalize(sUnknown)} |->
                     IF k = normalize(sUnknown) THEN full_context
                     ELSE condition_by_name[k]]
            ELSE condition_by_name
    /\ UNCHANGED <<advisory, raw_kb, vector_store>>

\* generate() has returned and the caller has taken the value: the locals of
\* the call are gone
Leave ==
    /\ pc \in {"DONE", "FAILED"}
    /\ pc' = "idle"
    /\ transcription' = <<>>
    /\ retrieved_docs' = NoDocs
    /\ condition_name' = <<>>
    /\ full_context' = NoEntry
    /\ medications' = JList(<<>>)
    /\ llm_response' = NoResponse
    /\ awaiting' = FALSE
    /\ llm_calls' = 0
    /\ fmt_calls' = 0
    /\ resolved_by' = "none"
    /\ path' = <<>>
    /\ result' = NoResult
    /\ UNCHANGED <<advisory, construction>>

\* a caller that holds the generator calls generate(transcription)
Call(q) ==
    /\ Enter(q)
    /\ UNCHANGED outside

\* and takes the returned value
Return ==
    /\ Leave
    /\ UNCHANGED outside

\* a resolution that tries the substring scan before the name map
rehydrate_scan_first(q, docs) ==
    LET meta    == docs[1]
        name    == Get(meta, "condition_name", sUnknown)
        key     == normalize(name)
        scanned == find_best_by_text(raw_kb, q)
    IN  IF scanned # NoEntry
        THEN [by |-> "scan", entry |-> scanned,
              name |-> Get(scanned, "condition_name", sUnknown)]
        ELSE IF key \in DOMAIN condition_by_name
        THEN [by |-> "map", entry |-> condition_by_name[key], name |-> name]
        ELSE [by |-> "none", entry |-> NoEntry, name |-> name]

\* a resolution that goes on to the next retrieved documents when the name of
\* the first one is not a key of the map
RECURSIVE rehydrate_next_hit(_, _)
rehydrate_next_hit(q, docs) ==
    LET meta    == docs[1]
        name    == Get(meta, "condition_name", sUnknown)
        key     == normalize(name)
        scanned == find_best_by_text(raw_kb, q)
    IN  IF key \in DOMAIN condition_by_name
        THEN [by |-> "map", entry |-> condition_by_name[key], name |-> name]
        ELSE IF Len(docs) > 1
        THEN rehydrate_next_hit(q, Tail(docs))
        ELSE IF scanned # NoEntry
        THEN [by |-> "scan", entry |-> scanned,
              name |-> Get(scanned, "condition_name", sUnknown)]
        ELSE [by |-> "none", entry |-> NoEntry, name |-> name]

\* lines 249-261: the entry and the condition name the first document leads
\* to for the query text q
rehydrate(q, docs) ==
    LET meta    == docs[1]
        name    == Get(meta, "condition_name", sUnknown)
        key     == normalize(name)
        scanned == find_best_by_text(raw_kb, q)
    IN  IF key \in DOMAIN condition_by_name
        THEN [by |-> "map", entry |-> condition_by_name[key], name |-> name]
        ELSE IF scanned # NoEntry
        THEN [by |-> "scan", entry |-> scanned,
              name |-> Get(scanned, "condition_name", sUnknown)]
        ELSE [by |-> "none", entry |-> NoEntry, name |-> name]

Rehydrate(docs) == rehydrate(transcription, docs)

\* what self.retriever.invoke can do: raise, or return up to K documents
RetrieverOutcomes ==
    {[raised |-> TRUE, docs |-> <<>>]}
        \cup {[raised |-> FALSE, docs |-> a] : a \in RetrieverAnswers(vector_store)}

\* lines 243-269: the retriever answers (or raises), the first document is
\* rehydrated, and an entry without drugs is returned at once
ResolveWith(ans) ==
    /\ pc = "RESOLVING"
    /\ retrieved_docs' = ans
    /\ UNCHANGED <<advisory, outside, construction, transcription, medications, llm_response,
                   awaiting, llm_calls, fmt_calls>>
    /\ IF ans.raised
       THEN /\ pc' = outer_except.pc
            /\ result' = outer_except.result
            /\ UNCHANGED <<condition_name, full_context, resolved_by>>
       ELSE IF ans.docs = <<>>
       THEN /\ pc' = "FAILED"
            /\ result' = Error(ErrNoMatch)
            /\ UNCHANGED <<condition_name, full_context, resolved_by>>
       ELSE LET r == Rehydrate(ans.docs)
            IN  /\ condition_name' = r.name
                /\ full_context' = r.entry
                /\ resolved_by' = r.by
                /\ IF r.by = "none"
                   THEN /\ pc' = "FAILED"
                        /\ result' = Error(ErrNoContext)
                   ELSE IF Get(r.entry, "suggested_drugs", <<>>) = <<>>
                   THEN /\ pc' = "DONE"
                        /\ result' = Success(Get(r.entry, "general_advice", DefaultAdvice),
                                             JList(<<>>), r.name)
                   ELSE /\ pc' = "GENERATING"
                        /\ result' = NoResult
    /\ path' = Append(path, pc')

Resolve ==
    /\ pc = "RESOLVING"
    /\ \E ans \in RetrieverOutcomes : ResolveWith(ans)

\* line 279: self.rag_chain.invoke is entered
InvokeChain ==
    /\ pc = "GENERATING"
    /\ ~awaiting
    /\ awaiting' = TRUE
    /\ llm_calls' = llm_calls + 1
    /\ UNCHANGED <<advisory, outside, construction, pc, transcription, retrieved_docs, condition_name,
                   full_context, medications, llm_response, fmt_calls,
                   resolved_by, path, result>>

\* a chain call that is tried a second time when the first one fails
ChainReturnsRetrying(out) ==
    /\ pc = "GENERATING"
    /\ awaiting
    /\ awaiting' = FALSE
    /\ llm_response' = out
    /\ UNCHANGED <<advisory, outside, construction, transcription, retrieved_docs, condition_name,
                   full_context, llm_calls, fmt_calls, resolved_by>>
    /\ IF out.kind = "value" /\ Truthy(out.value) /\ HasMedicationsKey(out.value)
          /\ HasLen(out.value.medications)
       THEN /\ medications' = out.value.medications
            /\ pc' = "DONE"
            /\ result' = Success(general_advice, out.value.medications, condition_name)
       ELSE /\ pc' = IF llm_calls < 2 THEN "GENERATING" ELSE "FALLBACK"
            /\ UNCHANGED <<medications, result>>
    /\ path' = Append(path, pc')

\* a chain whose list is checked after it is stored: a medication without a
\* dosage raises, and the except clause runs on the stored list
ChainReturnsChecking(out) ==
    /\ pc = "GENERATING"
    /\ awaiting
    /\ awaiting' = FALSE
    /\ llm_response' = out
    /\ UNCHANGED <<advisory, outside, construction, transcription, retrieved_docs, condition_name,
                   full_context, llm_calls, fmt_calls, resolved_by>>
    /\ IF out.kind = "value" /\ Truthy(out.value) /\ HasMedicationsKey(out.value)
       THEN /\ medications' = out.value.medications
            /\ IF /\ HasLen(out.value.medications)
                  /\ out.value.medications.t = "list"
                      => \A m \in Range(out.value.medications.items) :
                            "dosage" \in DOMAIN m
               THEN /\ pc' = "DONE"
                    /\ result' = Success(general_advice, out.value.medications,
                                         condition_name)
               ELSE /\ pc' = "FALLBACK"
                    /\ UNCHANGED result
       ELSE /\ pc' = "FALLBACK"
            /\ UNCHANGED <<medications, result>>
    /\ path' = Append(path, pc')

\* lines 279-293 and 300-307: the chain raises or returns; a usable response
\* goes to the result, anything else to the except clause
ChainReturns(out) ==
    /\ pc = "GENERATING"
    /\ awaiting
    /\ awaiting' = FALSE
    /\ llm_response' = out
    /\ UNCHANGED <<advisory, outside, construction, transcription, retrieved_docs, condition_name,
                   full_context, llm_calls, fmt_calls, resolved_by>>
    /\ IF out.kind = "value" /\ Truthy(out.value) /\ HasMedicationsKey(out.value)
       THEN /\ medications' = out.value.medications
            /\ IF HasLen(out.value.medications)
               THEN /\ pc' = "DONE"
                    /\ result' = Success(general_advice, out.value.medications,
                                         condition_name)
               ELSE /\ pc' = "FALLBACK"
                    /\ UNCHANGED result
       ELSE /\ pc' = "FALLBACK"
            /\ UNCHANGED <<medications, result>>
    /\ path' = Append(path, pc')

ChainAnswers ==
    /\ pc = "GENERATING"
    /\ \E i \in 1..Len(ChainOutcomes) : ChainReturns(ChainOutcomes[i])

\* the names the loop of lines 294-298 formats
NamedDrugs(infos) ==
    SelectSeq([i \in 1..Len(infos) |-> Get(infos[i], "name", "")], LAMBDA n : n # "")

\* lines 294-307: one medication per named drug is appended to medications;
\* when medications is not a list, append (or len, line 306) raises and the
\* outer except clause returns the error
Fallback ==
    /\ pc = "FALLBACK"
    /\ UNCHANGED <<advisory, outside, construction, transcription, retrieved_docs, condition_name,
                   full_context, llm_response, awaiting, llm_calls, resolved_by>>
    /\ LET names == NamedDrugs(suggested_drugs)
           meds  == [i \in 1..Len(names) |->
                        WithName(names[i], get_default_medication_details(names[i]))]
       IN  IF medications.t = "list"
           THEN /\ medications' = JList(medications.items \o meds)
                /\ fmt_calls' = Len(names)
                /\ pc' = "DONE"
                /\ result' = Success(general_advice, medications', condition_name)
           ELSE /\ fmt_calls' = IF names = <<>> THEN 0 ELSE 1
                /\ pc' = outer_except.pc
                /\ result' = outer_except.result
                /\ UNCHANGED medications
    /\ path' = Append(path, pc')

Next ==
    \/ \E q \in Queries : Call(q)
    \/ Resolve
    \/ InvokeChain
    \/ ChainAnswers
    \/ Fallback
    \/ Return

Spec == Init /\ [][Next]_vars

(***************************************************************************)
(* Start of the service: the module initialisation of inference_service.py *)
(* and RAGPrescriptionGenerator.__init__ with _load_data                   *)
(***************************************************************************)
MaxRaw == 3

\* isinstance(item, dict) for an element of the file: a JSON object of the
\* file is a record of its keys, any other element carries its type under t
IsMapping(x) == "t" \notin DOMAIN x

\* elements of a knowledge-base file besides well-formed records: an object
\* without condition_name, an object whose condition_name is "", a string
rNoName    == [symptoms |-> <<sache>>, suggested_drugs |-> <<Drug("Ibuprofen")>>]
rEmptyName == [condition_name |-> <<>>, symptoms |-> <<shot>>]
RawRecords == {eFlu, eFluDup, eCold, rNoName, rEmptyName, JStr}

\* medical_data.json: absent, not JSON, a JSON value that is no array, or an
\* array of up to MaxRaw elements
FileAbsent     == [t |-> "absent"]
FileUnparsable == [t |-> "unparsable"]
Files ==
    {FileAbsent, FileUnparsable, JObjOther, JStr, JNull}
        \cup {JList(items) : items \in UNION {[1..n -> RawRecords] : n \in 0..MaxRaw}}

\* a loader that keeps every element that is a dict
valid_items_any_dict(items) == SelectSeq(items, IsMapping)

\* the loop of lines 113-121: an element is appended to valid_items when it
\* is a dict whose condition_name is truthy, and skipped otherwise
RECURSIVE valid_items(_)
valid_items(items) ==
    IF items = <<>> THEN <<>>
    ELSE LET item == Head(items)
         IN  IF ~IsMapping(item) THEN valid_items(Tail(items))
             ELSE IF Get(item, "condition_name", <<>>) = <<>> THEN valid_items(Tail(items))
             ELSE <<item>> \o valid_items(Tail(items))

\* _load_data: open and json.load raise, a value that is no list raises
\* ValueError, a list is filtered; every exception is logged and re-raised
load_data(file) ==
    CASE file.t = "absent"     -> [raised |-> "FileNotFoundError", items |-> <<>>]
      [] file.t = "unparsable" -> [raised |-> "JSONDecodeError", items |-> <<>>]
      [] file.t \notin {"absent", "unparsable", "list"}
                               -> [raised |-> "ValueError", items |-> <<>>]
      [] OTHER                 -> [raised |-> NoError, items |-> valid_items(file.items)]

\* what __init__ depends on besides the file: whether the Ollama client and
\* the embedding model can be set up (lines 50-51), and whether
\* Chroma.from_documents takes an empty list of documents (line 173; the
\* installed chromadb decides)
Environments == [backend_ok : BOOLEAN, empty_index_ok : BOOLEAN]

\* __init__ raised e: no object is constructed
Failed(e) ==
    [error |-> e, raw_kb |-> <<>>, condition_by_name |-> <<>>, vector_store |-> <<>>]

\* __init__, lines 43-58, in the order of its statements
construct(file, env) ==
    LET loaded == load_data(file)
    IN  IF file.t = "absent" THEN Failed("FileNotFoundError")
        ELSE IF ~env.backend_ok THEN Failed("BackendSetupError")
        ELSE IF loaded.raised # NoError THEN Failed(loaded.raised)
        ELSE IF loaded.items = <<>> /\ ~env.empty_index_ok
        THEN Failed("IndexBuildError")
        ELSE [error |-> NoError, raw_kb |-> loaded.items,
              condition_by_name |-> BuildConditionByName(loaded.items),
              vector_store |-> create_vector_store_from_items(loaded.items)]

\* the interpreter starts to execute inference_service.py
ServiceInit ==
    /\ boot = "importing"
    /\ rag_generator = None
    /\ kb_file = NoFile
    /\ init_error = NoError
    /\ status = NoStatus
    /\ parked = NoFrame
    /\ raw_kb = <<>>
    /\ condition_by_name = <<>>
    /\ vector_store = <<>>
    /\ IdleLocals
    /\ NoAdvisoryCall

\* lines 22-32: the Whisper model loads, or the exception is raised again and
\* the import of the module ends
LoadWhisper ==
    /\ boot = "importing"
    /\ \E loaded \in BOOLEAN : boot' = IF loaded THEN "whisper_loaded" ELSE "aborted"
    /\ UNCHANGED <<advisory, construction, locals, rag_generator, kb_file, init_error, status, parked>>

\* line 37: RAGPrescriptionGenerator() runs on the file and the environment
\* it finds
ConstructGenerator ==
    /\ boot = "whisper_loaded"
    /\ \E file \in Files, env \in Environments :
        LET c == construct(file, env)
        IN  /\ kb_file' = file
            /\ init_error' = c.error
            /\ raw_kb' = c.raw_kb
            /\ condition_by_name' = c.condition_by_name
            /\ vector_store' = c.vector_store
    /\ boot' = "constructed"
    /\ UNCHANGED <<advisory, locals, rag_generator, status, parked>>

\* lines 35-42 and 475-476: rag_generator is the constructed object, or stays
\* None when the constructor raised (the except clause logs and does not
\* raise); the rest of the module runs and uvicorn serves the application
StartService ==
    /\ boot = "constructed"
    /\ rag_generator' = IF init_error = NoError THEN Generator ELSE None
    /\ kb_file' = NoFile
    /\ boot' = "serving"
    /\ UNCHANGED <<advisory, construction, locals, init_error, status, parked>>

\* lines 470-472: `except Exception` of generate_prescription catches whatever
\* the try block raised, an HTTPException included, and raises status 500
except_clause(raised_status) == "500"

\* the texts step 4 of the endpoint can hand on: no speech, and three queries
Transcriptions == {<<>>, sflu, sCold, <<"f","i","n","e">>}

\* generate_prescription, lines 415-423, with transcription_text = q
Request(q) ==
    /\ boot = "serving"
    /\ pc = "idle"
    /\ UNCHANGED <<advisory, boot, rag_generator, kb_file, init_error, parked>>
    /\ IF q = <<>>
       THEN /\ status' = except_clause("400")
            /\ UNCHANGED <<construction, locals>>
       ELSE IF rag_generator = None
       THEN /\ status' = except_clause("503")
            /\ UNCHANGED <<construction, locals>>
       ELSE /\ UNCHANGED status
            /\ Enter(q)

\* generate_prescription, lines 423-468, once generate() has returned: an
\* error result raises status 500; a medications value that is a list of
\* objects is formatted and answered with 200, on any other the loop of
\* lines 432-455 raises
Respond ==
    /\ boot = "serving"
    /\ Leave
    /\ status' = IF "error" \in DOMAIN result THEN except_clause("500")
                 ELSE IF result.medications.t = "list" THEN "200"
                 ELSE except_clause("500")
    /\ UNCHANGED <<advisory, boot, rag_generator, kb_file, init_error, parked>>

ServiceNext ==
    \/ LoadWhisper
    \/ ConstructGenerator
    \/ StartService
    \/ \E q \in Transcriptions : Request(q)
    \/ Resolve
    \/ InvokeChain
    \/ ChainAnswers
    \/ Fallback
    \/ Respond

ServiceSpec == ServiceInit /\ [][ServiceNext]_vars

(***************************************************************************)
(* Two threads in generate() on the one generator                          *)
(***************************************************************************)
\* the locals of the call the running thread is in
Frame ==
    [pc |-> pc, transcription |-> transcription, retrieved_docs |-> retrieved_docs,
     condition_name |-> condition_name, full_context |-> full_context,
     medications |-> medications, llm_response |-> llm_response,
     awaiting |-> awaiting, llm_calls |-> llm_calls, fmt_calls |-> fmt_calls,
     resolved_by |-> resolved_by, path |-> path, result |-> result]

\* the locals of a thread that is in no call
IdleFrame ==
    [pc |-> "idle", transcription |-> <<>>, retrieved_docs |-> NoDocs,
     condition_name |-> <<>>, full_context |-> NoEntry,
     medications |-> JList(<<>>), llm_response |-> NoResponse,
     awaiting |-> FALSE, llm_calls |-> 0, fmt_calls |-> 0,
     resolved_by |-> "none", path |-> <<>>, result |-> NoResult]

\* a generator that keeps medications in an attribute: the running thread
\* goes on with the value the other one left
SwitchSharingMedications ==
    /\ parked # NoFrame
    /\ parked' = Frame
    /\ pc' = parked.pc
    /\ transcription' = parked.transcription
    /\ retrieved_docs' = parked.retrieved_docs
    /\ condition_name' = parked.condition_name
    /\ full_context' = parked.full_context
    /\ llm_response' = parked.llm_response
    /\ awaiting' = parked.awaiting
    /\ llm_calls' = parked.llm_calls
    /\ fmt_calls' = parked.fmt_calls
    /\ resolved_by' = parked.resolved_by
    /\ path' = parked.path
    /\ result' = parked.result
    /\ UNCHANGED <<advisory, medications, construction, boot, rag_generator, kb_file,
                   init_error, status>>

\* the other thread runs: every variable generate() assigns is a local of
\* the call (lines 243-307), so each thread goes on with its own values; the
\* attributes of the generator are the same for both
Switch ==
    /\ parked # NoFrame
    /\ parked' = Frame
    /\ pc' = parked.pc
    /\ transcription' = parked.transcription
    /\ retrieved_docs' = parked.retrieved_docs
    /\ condition_name' = parked.condition_name
    /\ full_context' = parked.full_context
    /\ medications' = parked.medications
    /\ llm_response' = parked.llm_response
    /\ awaiting' = parked.awaiting
    /\ llm_calls' = parked.llm_calls
    /\ fmt_calls' = parked.fmt_calls
    /\ resolved_by' = parked.resolved_by
    /\ path' = parked.path
    /\ result' = parked.result
    /\ UNCHANGED <<advisory, construction, boot, rag_generator, kb_file, init_error, status>>

\* the knowledge bases, the queries, the retriever answers (the top document
\* decides) and the backend answers the two threads are run on
ConcKBs     == {<<eFlu, eCold>>, <<eGut, eFlu>>, <<eFlu, eFluDup>>}
ConcQueries == {sflu, <<"m","y"," ","a","c","h","e">>}
TopHitOutcomes ==
    {o \in RetrieverOutcomes : Len(o.docs) <= 1}
ConcChainOutcomes ==
    << Raises("timeout"),
       Returns(JObjMeds(JNull)),
       Returns(JObjMeds(JList(<<>>))),
       Returns(JObjMeds(JList(<<LlmMed("Ibuprofen"), LlmMed("Aspirin")>>))) >>

ConcInit ==
    /\ raw_kb \in ConcKBs
    /\ condition_by_name = BuildConditionByName(raw_kb)
    /\ vector_store = create_vector_store_from_items(raw_kb)
    /\ IdleLocals
    /\ boot = "serving"
    /\ rag_generator = Generator
    /\ kb_file = NoFile
    /\ init_error = NoError
    /\ status = NoStatus
    /\ parked = IdleFrame
    /\ NoAdvisoryCall

ConcResolve ==
    /\ pc = "RESOLVING"
    /\ \E ans \in TopHitOutcomes : ResolveWith(ans)

ConcChainAnswers ==
    /\ pc = "GENERATING"
    /\ \E i \in 1..Len(ConcChainOutcomes) : ChainReturns(ConcChainOutcomes[i])

ConcNext ==
    \/ \E q \in ConcQueries : Call(q)
    \/ ConcResolve
    \/ InvokeChain
    \/ ConcChainAnswers
    \/ Fallback
    \/ Return
    \/ Switch

ConcSpec == ConcInit /\ [][ConcNext]_vars

\* what generate(q) returns when it runs alone, the retriever answering ans
\* and the backend answering out (lines 243-311 in sequence)
generate_alone(q, ans, out) ==
    IF ans.raised THEN outer_except.result
    ELSE IF ans.docs = <<>> THEN Error(ErrNoMatch)
    ELSE LET r      == rehydrate(q, ans.docs)
             advice == Get(r.entry, "general_advice", DefaultAdvice)
             infos  == Get(r.entry, "suggested_drugs", <<>>)
             names  == NamedDrugs(infos)
             meds   == [i \in 1..Len(names) |->
                           WithName(names[i], get_default_medication_details(names[i]))]
         IN  IF r.by = "none" THEN Error(ErrNoContext)
             ELSE IF infos = <<>> THEN Success(advice, JList(<<>>), r.name)
             ELSE IF out.kind = "value" /\ Truthy(out.value) /\ HasMedicationsKey(out.value)
             THEN IF HasLen(out.value.medications)
                  THEN Success(advice, out.value.medications, r.name)
                  ELSE outer_except.result
             ELSE Success(advice, JList(meds), r.name)

(***************************************************************************)
(* SmartPrescriptionSystem.check_drug_interactions (smart_prescription.py) *)
(***************************************************************************)
MaxDrugs   == 2     \* largest number of drugs in a call
MaxReports == 2     \* largest number of interactions in an LLM analysis

\* drug names of the table, as Python strings
TableNames ==
    [warfarin |-> <<"w","a","r","f","a","r","i","n">>,
     aspirin |-> <<"a","s","p","i","r","i","n">>,
     ibuprofen |-> <<"i","b","u","p","r","o","f","e","n">>,
     lisinopril |-> <<"l","i","s","i","n","o","p","r","i","l">>,
     potassium |-> <<"p","o","t","a","s","s","i","u","m">>,
     enalapril |-> <<"e","n","a","l","a","p","r","i","l">>,
     spironolactone |-> <<"s","p","i","r","o","n","o","l","a","c","t","o","n","e">>,
     atorvastatin |-> <<"a","t","o","r","v","a","s","t","a","t","i","n">>,
     gemfibrozil |-> <<"g","e","m","f","i","b","r","o","z","i","l">>,
     simvastatin |-> <<"s","i","m","v","a","s","t","a","t","i","n">>,
     diltiazem |-> <<"d","i","l","t","i","a","z","e","m">>,
     ciprofloxacin |-> <<"c","i","p","r","o","f","l","o","x","a","c","i","n">>,
     calcium |-> <<"c","a","l","c","i","u","m">>,
     tetracycline |-> <<"t","e","t","r","a","c","y","c","l","i","n","e">>,
     iron |-> <<"i","r","o","n">>,
     morphine |-> <<"m","o","r","p","h","i","n","e">>,
     alcohol |-> <<"a","l","c","o","h","o","l">>,
     codeine |-> <<"c","o","d","e","i","n","e">>,
     fluoxetine |-> <<"f","l","u","o","x","e","t","i","n","e">>,
     sertraline |-> <<"s","e","r","t","r","a","l","i","n","e">>]

\* names as a caller writes them
sAspirinCap == <<"A","s","p","i","r","i","n">>
InputDrugs  == {TableNames.warfarin, sAspirinCap, TableNames.ibuprofen}
DrugLists   == UNION {[1..n -> InputDrugs] : n \in 0..MaxDrugs}

Info(severity, description, recommendation) ==
    [severity |-> severity, description |-> description,
     recommendation |-> recommendation]

\* lines 113-185: the dict keyed by a pair of lower-case names
known_interactions ==
    (<<TableNames.warfarin, TableNames.aspirin>> :>
        Info("High", "Increased bleeding risk",
             "Monitor INR closely, consider alternative to aspirin"))
    @@ (<<TableNames.warfarin, TableNames.ibuprofen>> :>
        Info("High", "Increased bleeding risk",
             "Avoid NSAIDs, use acetaminophen instead"))
    @@ (<<TableNames.lisinopril, TableNames.potassium>> :>
        Info("Moderate", "Risk of hyperkalemia",
             "Monitor potassium levels regularly"))
    @@ (<<TableNames.enalapril, TableNames.spironolactone>> :>
        Info("High", "Risk of hyperkalemia and hypotension",
             "Monitor potassium and blood pressure closely"))
    @@ (<<TableNames.atorvastatin, TableNames.gemfibrozil>> :>
        Info("High", "Increased risk of rhabdomyolysis",
             "Avoid combination or use lower statin dose"))
    @@ (<<TableNames.simvastatin, TableNames.diltiazem>> :>
        Info("Moderate", "Increased statin levels", "Reduce simvastatin dose"))
    @@ (<<TableNames.ciprofloxacin, TableNames.calcium>> :>
        Info("Moderate", "Reduced antibiotic absorption",
             "Take ciprofloxacin 2 hours before or 6 hours after calcium"))
    @@ (<<TableNames.tetracycline, TableNames.iron>> :>
        Info("Moderate", "Reduced antibiotic absorption",
             "Separate doses by 2-3 hours"))
    @@ (<<TableNames.morphine, TableNames.alcohol>> :>
        Info("High", "Increased sedation and respiratory depression",
             "Avoid alcohol completely"))
    @@ (<<TableNames.codeine, TableNames.alcohol>> :>
        Info("High", "Increased sedation and respiratory depression",
             "Avoid alcohol completely"))
    @@ (<<TableNames.fluoxetine, TableNames.warfarin>> :>
        Info("Moderate", "Increased bleeding risk", "Monitor INR more frequently"))
    @@ (<<TableNames.sertraline, TableNames.warfarin>> :>
        Info("Moderate", "Increased bleeding risk", "Monitor INR more frequently"))

\* line 188: drug.lower().strip()
drug_lower(ds) == [i \in 1..Len(ds) |-> strip(lower(ds[i]))]

Warning(d1, d2, info) ==
    [drug1 |-> d1, drug2 |-> d2, severity |-> info.severity,
     description |-> info.description, recommendation |-> info.recommendation]

\* lines 194-205: the pair (i, j) is looked up in both orders, and the first
\* order found gives one record that carries the names as the caller wrote them
lookup(ds, i, j) ==
    LET drug1 == drug_lower(ds)[i]
        drug2 == drug_lower(ds)[j]
    IN  IF <<drug1, drug2>> \in DOMAIN known_interactions
        THEN <<Warning(ds[i], ds[j], known_interactions[<<drug1, drug2>>])>>
        ELSE IF <<drug2, drug1>> \in DOMAIN known_interactions
        THEN <<Warning(ds[i], ds[j], known_interactions[<<drug2, drug1>>])>>
        ELSE <<>>

\* lines 190-205: the two loops, from the pair (i, j) on
RECURSIVE known_from(_, _, _)
known_from(ds, i, j) ==
    IF i > Len(ds) THEN <<>>
    ELSE IF j > Len(ds) THEN known_from(ds, i + 1, i + 2)
    ELSE lookup(ds, i, j) \o known_from(ds, i, j + 1)

\* lines 214-218: any(...) over the list built so far; a record without the
\* key that is read raises KeyError
RECURSIVE any_existing(_, _)
any_existing(existing, interaction) ==
    IF existing = <<>> THEN "no"
    ELSE IF "drug1" \notin DOMAIN existing[1] \/ "drug1" \notin DOMAIN interaction
    THEN "raise"
    ELSE IF lower(existing[1].drug1) # lower(interaction.drug1)
    THEN any_existing(Tail(existing), interaction)
    ELSE IF "drug2" \notin DOMAIN existing[1] \/ "drug2" \notin DOMAIN interaction
    THEN "raise"
    ELSE IF lower(existing[1].drug2) = lower(interaction.drug2)
    THEN "yes"
    ELSE any_existing(Tail(existing), interaction)

\* lines 212-221: the reported interactions are appended in order unless
\* any(...) finds them; an exception ends the loop and is logged (line 220)
RECURSIVE merge(_, _)
merge(list, reported) ==
    IF reported = <<>> THEN list
    ELSE LET found == any_existing(list, reported[1])
         IN  IF found = "raise" THEN list
             ELSE IF found = "yes" THEN merge(list, Tail(reported))
             ELSE merge(Append(list, reported[1]), Tail(reported))

\* what MedicalLLM.analyze_drug_interactions can return (medical_llm.py,
\* lines 152-157 and 228-247): the fallback analysis, or the object the model
\* wrote, with or without interactions
LlmWarning(d1, d2) ==
    [drug1 |-> d1, drug2 |-> d2, severity |-> "Low",
     description |-> "reported by the model", recommendation |-> "monitor"]
LlmWarningNoDrug1(d2) ==
    [drug2 |-> d2, severity |-> "Low",
     description |-> "reported by the model", recommendation |-> "monitor"]
fallback_interaction_analysis ==
    [interactions |-> <<>>,
     summary |-> "Unable to analyze drug interactions automatically. Please consult a pharmacist or physician.",
     contraindications |-> <<"Always consult healthcare provider before combining medications">>]

\* the names a report on the drugs ds can carry: as given, or lower-cased
Mentions(ds) == Range(ds) \cup Range(drug_lower(ds))
Reports(ds) ==
    {LlmWarning(a, b) : a, b \in Mentions(ds)}
        \cup {LlmWarningNoDrug1(b) : b \in Range(ds)}
LlmAnalyses(ds) ==
    {fallback_interaction_analysis, [summary |-> "none found"]}
        \cup {[interactions |-> r, summary |-> "see interactions"] :
                r \in UNION {[1..n -> Reports(ds)] : n \in 1..MaxReports}}

\* the other variables of the module
elsewhere == <<construction, locals, outside, analysis_pc, age, response, analysis>>

AdvisoryInit ==
    /\ raw_kb = <<>>
    /\ condition_by_name = <<>>
    /\ vector_store = <<>>
    /\ IdleLocals
    /\ boot = "importing"
    /\ rag_generator = None
    /\ kb_file = NoFile
    /\ init_error = NoError
    /\ status = NoStatus
    /\ parked = NoFrame
    /\ NoAdvisoryCall

\* lines 96-110: check_drug_interactions(drugs) is entered
CheckDrugInteractions(ds) ==
    /\ interactions_pc \in {"idle", "returned"}
    /\ interactions_pc' = "table"
    /\ drugs' = ds
    /\ interactions' = <<>>
    /\ llm_analysis' = NoAnalysis
    /\ UNCHANGED elsewhere

\* lines 187-205: the table is searched for every pair i < j
CheckKnown ==
    /\ interactions_pc = "table"
    /\ interactions' = known_from(drugs, 1, 2)
    /\ interactions_pc' = "llm"
    /\ UNCHANGED <<drugs, llm_analysis, elsewhere>>

\* lines 207-224: with two drugs or more the LLM analysis is asked for and its
\* interactions are merged; the list is returned
MergeAnalysis ==
    /\ interactions_pc = "llm"
    /\ interactions_pc' = "returned"
    /\ UNCHANGED <<drugs, elsewhere>>
    /\ IF Len(drugs) > 1
       THEN \E a \in LlmAnalyses(drugs) :
               /\ llm_analysis' = a
               /\ interactions' = merge(interactions, Get(a, "interactions", <<>>))
       ELSE UNCHANGED <<llm_analysis, interactions>>

InteractionNext ==
    \/ \E ds \in DrugLists : CheckDrugInteractions(ds)
    \/ CheckKnown
    \/ MergeAnalysis

InteractionSpec == AdvisoryInit /\ [][InteractionNext]_vars


(***************************************************************************)
(* MedicalLLM.analyze_symptoms (medical_llm.py)                            *)
(***************************************************************************)
MaxText == 3        \* largest length of a response text

\* the ages of the callers
Ages == {5, 17, 18, 30}

\* response texts, over an opening brace, a closing brace, a blank and a
\* letter
TextChars == {"{", "}", " ", "t"}
Texts     == UNION {[1..n -> TextChars] : n \in 0..MaxText}

\* what self._call_ollama can do (lines 159-181): raise (no connection,
\* timeout, a status other than 200), or return the text of the model
OllamaOutcomes == {Raises("ollama")} \cup {Returns(t) : t \in Texts}

\* str.find and str.rfind of one character: the index from 0, or -1
find(s, c) ==
    LET at == {i \in 1..Len(s) : s[i] = c}
    IN  IF at = {} THEN -1 ELSE (CHOOSE i \in at : \A j \in at : i <= j) - 1
rfind(s, c) ==
    LET at == {i \in 1..Len(s) : s[i] = c}
    IN  IF at = {} THEN -1 ELSE (CHOOSE i \in at : \A j \in at : i >= j) - 1

\* the slice s[a:b] for 0 <= a and 0 <= b
slice(s, a, b) ==
    LET hi == IF b > Len(s) THEN Len(s) ELSE b
    IN  IF a >= hi THEN <<>> ELSE SubSeq(s, a + 1, hi)

\* json.loads on a text of TextChars: an object is a pair of braces around
\* blanks, with blanks around it; every other text raises JSONDecodeError
json_loads(s) ==
    LET body == strip(s)
    IN  IF /\ Len(body) >= 2
           /\ body[1] = "{"
           /\ body[Len(body)] = "}"
           /\ \A i \in 2..(Len(body) - 1) : body[i] = " "
        THEN Returns(JEmptyObj)
        ELSE Raises("JSONDecodeError")

\* lines 213-226
fallback_analysis(symptoms, a) ==
    [possible_diseases |-> <<"general illness">>,
     recommended_drugs |->
        <<[drug |-> "paracetamol",
           dosage |-> IF a >= 18 THEN "500mg every 6-8 hours"
                      ELSE "10-15mg/kg every 6-8 hours",
           instructions |-> "Take with food. Consult doctor if symptoms persist.",
           reason |-> "General pain and fever relief"]>>,
     general_advice |->
        "Rest, stay hydrated, and consult a healthcare provider if symptoms worsen."]

\* lines 183-196
parse_medical_response(text) ==
    LET start_idx == find(text, "{")
        end_idx   == rfind(text, "}") + 1
        loaded    == json_loads(slice(text, start_idx, end_idx))
    IN  IF start_idx # -1 /\ end_idx # -1
        THEN IF loaded.kind = "value" THEN loaded.value
             ELSE fallback_analysis(<<>>, 25)
        ELSE fallback_analysis(<<>>, 25)

\* the other variables of the module
beside == <<construction, locals, outside, interactions_pc, drugs, interactions,
            llm_analysis>>

\* lines 40-44: analyze_symptoms(symptoms, age) is entered
AnalyzeSymptoms(a) ==
    /\ analysis_pc \in {"idle", "returned"}
    /\ analysis_pc' = "calling"
    /\ age' = a
    /\ response' = NoResponse
    /\ analysis' = NoAnalysis
    /\ UNCHANGED beside

\* lines 71-72 and 159-181: the request to Ollama ends
CallOllama ==
    /\ analysis_pc = "calling"
    /\ \E out \in OllamaOutcomes : response' = out
    /\ analysis_pc' = "called"
    /\ UNCHANGED <<age, analysis, beside>>

\* lines 72-75: the text is parsed and the value returned; an exception of
\* the call gives the fallback analysis of symptoms and age
ReturnAnalysis ==
    /\ analysis_pc = "called"
    /\ analysis_pc' = "returned"
    /\ analysis' = IF response.kind = "raise" THEN fallback_analysis(<<>>, age)
                   ELSE parse_medical_response(response.value)
    /\ UNCHANGED <<age, response, beside>>

SymptomNext ==
    \/ \E a \in Ages : AnalyzeSymptoms(a)
    \/ CallOllama
    \/ ReturnAnalysis

SymptomSpec == AdvisoryInit /\ [][SymptomNext]_vars

(***************************************************************************)
(* Vocabulary of the properties                                            *)
(***************************************************************************)
Returned   == pc \in {"DONE", "FAILED"}
IsError(r) == "error" \in DOMAIN r
IsResult(r) == {"condition", "general_advice", "medications"} \subseteq DOMAIN r
Resolved   == resolved_by \in {"map", "scan"}
Visited(p) == \E i \in 1..Len(path) : path[i] = p

\* the backend behaviours of a failed generation: the chain raised (backend
\* error, timeout, unparsable text), or it returned an object without a
\* 'medications' key, or one whose 'medications' is null or not a list
BackendLetDown(out) ==
    \/ out.kind = "raise"
    \/ /\ out.kind = "value"
       /\ out.value.t = "obj"
       /\ \/ ~HasMedicationsKey(out.value)
          \/ out.value.medications.t # "list"

(***************************************************************************)
(* C1: when the query resolved to an entry with a non-empty                *)
(* suggested_drugs and the backend raised, timed out, returned unparsable  *)
(* text, an object without 'medications', or a 'medications' that is null  *)
(* or not a list, generate() returns a result with condition,              *)
(* general_advice and medications, and never one carrying 'error'.         *)
(***************************************************************************)
C1_FailureAbsorbed ==
    (Returned /\ Resolved /\ suggested_drugs # <<>> /\ BackendLetDown(llm_response))
        => (IsResult(result) /\ ~IsError(result))

(***************************************************************************)
(* C2: every run of generate() follows RESOLVING->FAILED, RESOLVING->DONE  *)
(* (the resolved entry has no drugs), RESOLVING->GENERATING->DONE or       *)
(* RESOLVING->GENERATING->FALLBACK->DONE: GENERATING is entered only after *)
(* a successful resolve, FALLBACK only from GENERATING after a generation  *)
(* failure, FALLBACK always leads to DONE, and no step of the run follows  *)
(* DONE or FAILED.                                                         *)
(***************************************************************************)
C2_PathStep ==
    /\ pc = "idle" => pc' \in {"idle", "RESOLVING"}
    /\ pc = "RESOLVING" => pc' \in {"RESOLVING", "FAILED", "DONE", "GENERATING"}
    /\ (pc = "RESOLVING" /\ pc' = "DONE") => (Resolved' /\ suggested_drugs' = <<>>)
    /\ (pc = "RESOLVING" /\ pc' = "GENERATING") => Resolved'
    /\ pc = "GENERATING" => pc' \in {"GENERATING", "DONE", "FALLBACK"}
    /\ (pc = "GENERATING" /\ pc' = "FALLBACK") => llm_response' # NoResponse
    /\ pc = "FALLBACK" => pc' \in {"FALLBACK", "DONE"}
    /\ pc \in {"DONE", "FAILED"} => pc' \in {pc, "idle"}

C2_Paths == [][C2_PathStep]_vars

(***************************************************************************)
(* C3: for a resolved entry with a non-empty suggested_drugs, the          *)
(* medication list generate() returns is never empty, and when the         *)
(* fallback formatter produced it, it holds at most one medication per     *)
(* suggested drug name.                                                    *)
(***************************************************************************)
DrugNames(infos) == {Get(infos[i], "name", "") : i \in 1..Len(infos)} \ {""}

C3_MedicationsNeverEmpty ==
    (pc = "DONE" /\ Resolved /\ suggested_drugs # <<>>)
        => /\ IsResult(result)
           /\ result.medications.t = "list"
           /\ result.medications.items # <<>>
           /\ Visited("FALLBACK") =>
                \A n \in DrugNames(suggested_drugs) :
                    Cardinality({i \in 1..Len(result.medications.items) :
                                    result.medications.items[i].name = n}) <= 1

(***************************************************************************)
(* C4: for every entry e and every symptom s of e, when the semantic index *)
(* returns no hit at all for the query text s, generate(s) runs the        *)
(* substring scan and resolves to e; it does not return a no-match error.  *)
(***************************************************************************)
IndexReturnedNothing == ~retrieved_docs.raised /\ retrieved_docs.docs = <<>>

C4_SymptomFallback ==
    \A i \in 1..Len(raw_kb) :
        (/\ Returned
         /\ IndexReturnedNothing
         /\ transcription \in Range(Get(raw_kb[i], "symptoms", <<>>)))
            => (full_context = raw_kb[i] /\ ~IsError(result))

(***************************************************************************)
(* C5: for every entry e of the loaded knowledge base, generate() called   *)
(* with a query equal to e.condition_name resolves to exactly e (the       *)
(* result's condition, general_advice and drug list are those of e), also  *)
(* when several entries have names that differ only in case or surrounding *)
(* whitespace.  Stated for the runs most favourable to the code: those in  *)
(* which the semantic index ranks e's own document first.                  *)
(***************************************************************************)
TopHitIs(doc) ==
    ~retrieved_docs.raised /\ retrieved_docs.docs # <<>> /\ retrieved_docs.docs[1] = doc

C5_NameIdentity ==
    \A i \in 1..Len(raw_kb) :
        (/\ Returned
         /\ transcription = raw_kb[i].condition_name
         /\ TopHitIs(vector_store[i]))
            => /\ full_context = raw_kb[i]
               /\ pc = "DONE" =>
                    /\ result.condition = raw_kb[i].condition_name
                    /\ result.general_advice =
                            Get(raw_kb[i], "general_advice", DefaultAdvice)

(***************************************************************************)
(* C6: for every query text that contains no condition name and no symptom *)
(* of the knowledge base as a substring, generate() ends in FAILED with    *)
(* the no-match error, whatever the (non-empty) knowledge base and         *)
(* whatever documents the semantic index answers with.                     *)
(***************************************************************************)
\* neither a name (trimmed) nor a symptom occurs in the text, letter case aside
NoKeyword(text) ==
    \A i \in 1..Len(raw_kb) :
        /\ ~contains(lower(text), normalize(Get(raw_kb[i], "condition_name", <<>>)))
        /\ \A sy \in Range(Get(raw_kb[i], "symptoms", <<>>)) :
                ~contains(lower(text), lower(sy))

C6_NoKeywordNoMatch ==
    (Returned /\ ~retrieved_docs.raised /\ NoKeyword(transcription))
        => /\ pc = "FAILED"
           /\ IsError(result)
           /\ result.error \in {ErrNoMatch, ErrNoContext}

(***************************************************************************)
(* C7: when the resolved entry has an empty suggested_drugs, generate()    *)
(* invokes neither the generation backend nor the fallback formatter and   *)
(* returns medications = [] with the entry's condition and general_advice  *)
(* and no 'error' key.                                                     *)
(***************************************************************************)
C7_NoDrugsEarlyReturn ==
    (Returned /\ Resolved /\ suggested_drugs = <<>>)
        => /\ llm_calls = 0
           /\ fmt_calls = 0
           /\ ~Visited("GENERATING") /\ ~Visited("FALLBACK")
           /\ result = Success(Get(full_context, "general_advice", DefaultAdvice),
                               JList(<<>>),
                               Get(full_context, "condition_name", sUnknown))

(***************************************************************************)
(* C8: no exception leaves generate(), whatever the query, the retriever   *)
(* and the backend do, and the value it returns is either a result with    *)
(* condition, general_advice and medications or an error value: never      *)
(* both, never neither.                                                    *)
(***************************************************************************)
C8_ResultOrError ==
    /\ pc \in {"idle", "RESOLVING", "GENERATING", "FALLBACK", "DONE", "FAILED"}
    /\ Returned =>
        /\ IsResult(result) # IsError(result)
        /\ IsError(result) =>
                (DOMAIN result = {"error"}
                    /\ result.error \in {ErrNoMatch, ErrNoContext, ErrCritical})
        /\ IsResult(result) => pc = "DONE"

\* an exception raised inside the except clause of the generation step has
\* been turned into the returned error
C8_Witness ==
    /\ pc = "FAILED"
    /\ Visited("FALLBACK")
    /\ result = Error(ErrCritical)

(***************************************************************************)
(* C9: a backend output that does not parse, that fails the                *)
(* medication-list schema (a medication without a required field or with   *)
(* a quantity that is not an integer), or whose 'medications' is missing   *)
(* or an empty list, is a generation failure: generate() takes the         *)
(* FALLBACK path and never returns that output's medication list.          *)
(***************************************************************************)
RequiredFields ==
    {"name", "dosage", "frequency", "timing", "duration", "quantity", "instructions"}

\* PrescriptionOutput: an object whose medications is a list of Medication
SchemaValid(v) ==
    /\ v.t = "obj"
    /\ HasMedicationsKey(v)
    /\ v.medications.t = "list"
    /\ \A i \in 1..Len(v.medications.items) :
            RequiredFields \subseteq DOMAIN v.medications.items[i]

GenerationFailure(out) ==
    \/ out.kind = "raise"
    \/ /\ out.kind = "value"
       /\ \/ ~SchemaValid(out.value)
          \/ out.value.medications.items = <<>>

C9_InvalidOutputRejected ==
    (Returned /\ llm_response # NoResponse /\ GenerationFailure(llm_response))
        => /\ Visited("FALLBACK")
           /\ (/\ IsResult(result)
               /\ llm_response.kind = "value"
               /\ HasMedicationsKey(llm_response.value))
                    => result.medications # llm_response.value.medications

(***************************************************************************)
(* C10: the quantity the fallback table gives a drug, read against the     *)
(* drug's own frequency and duration                                       *)
(***************************************************************************)
\* administrations per day a frequency implies; 0 when it implies none
PerDay(frequency) ==
    CASE frequency = "once daily"    -> 1
      [] frequency = "twice daily"   -> 2
      [] frequency = "thrice daily"  -> 3
      [] frequency = "every 6 hours" -> 24 \div 6
      [] OTHER                       -> 0

\* days of a duration; 0 when it states none
Days(duration) ==
    CASE duration = "2 days" -> 2
      [] duration = "3 days" -> 3
      [] duration = "5 days" -> 5
      [] duration = "7 days" -> 7
      [] OTHER               -> 0

\* the medications of a returned fallback result
FallbackItems ==
    IF pc = "DONE" /\ Visited("FALLBACK") THEN result.medications.items ELSE <<>>

\* the drugs of the table that are tablets taken a stated number of times a day
TabletDrugs ==
    {"Acetaminophen", "Ibuprofen", "Cetirizine", "Loratadine", "Ondansetron", "Naproxen"}

DetailFields == {"dosage", "frequency", "timing", "duration", "quantity", "instructions"}

C11_FormatTotal ==
    /\ (pc = "DONE" /\ Visited("FALLBACK"))
            => Len(result.medications.items) = Len(NamedDrugs(suggested_drugs))
    /\ \A i \in 1..Len(FallbackItems) :
        LET m == FallbackItems[i]
        IN  /\ DetailFields \subseteq DOMAIN m
            /\ \A f \in DetailFields \ {"quantity"} : m[f] # ""
            /\ m.quantity \in Nat
            /\ m.quantity >= 1
            /\ m.name \notin DOMAIN medication_defaults
                    => [f \in DetailFields |-> m[f]] = default_details

\* the fallback has formatted the lower-case "ibuprofen" of an entry: it
\* carries the generic values, not the row of Ibuprofen
C11_Witness ==
    /\ pc = "DONE"
    /\ Visited("FALLBACK")
    /\ \E i \in 1..Len(result.medications.items) :
            /\ result.medications.items[i].name = "ibuprofen"
            /\ result.medications.items[i].dosage = "As directed"
            /\ result.medications.items[i].quantity = 1

(***************************************************************************)
(* Vocabulary of the start of the service                                  *)
(***************************************************************************)
\* the exceptions _load_data and the path test of __init__ raise
LoadErrors == {"FileNotFoundError", "JSONDecodeError", "ValueError"}

\* __init__ has run and got as far as the knowledge-base file
Constructed == boot = "constructed" /\ init_error # "BackendSetupError"

\* an element _load_data is to keep
ValidRecord(x) == IsMapping(x) /\ Get(x, "condition_name", <<>>) # <<>>

\* the file holds a list none of whose elements is a valid record
NoValidRecord(file) ==
    file.t = "list" /\ \A i \in 1..Len(file.items) : ~ValidRecord(file.items[i])

(***************************************************************************)
(* C12: loading the knowledge base fails with a load error when the path   *)
(* is missing, when the content is not a list of records, or when zero     *)
(* valid records remain after filtering; in none of these cases does       *)
(* construction yield a usable generator with an empty knowledge base.     *)
(***************************************************************************)
C12_LoadFails ==
    (Constructed /\ (kb_file.t # "list" \/ NoValidRecord(kb_file)))
        => (init_error \in LoadErrors /\ raw_kb = <<>> /\ vector_store = <<>>)

(***************************************************************************)
(* C13: in the name -> entry map built at construction (key =              *)
(* condition_name trimmed and lower-cased), when several valid entries     *)
(* normalise to the same key the map holds the first of them in            *)
(* knowledge-base order and later duplicates are discarded.                *)
(***************************************************************************)
C13_FirstWins ==
    rag_generator = Generator
        => /\ condition_by_name = BuildConditionByNameFirst(raw_kb)
           /\ \A i \in 1..Len(raw_kb) :
                (\A j \in 1..(i - 1) : KeyOf(raw_kb[j]) # KeyOf(raw_kb[i]))
                    => condition_by_name[KeyOf(raw_kb[i])] = raw_kb[i]

(***************************************************************************)
(* C14: after _load_data every entry held by the generator is a mapping    *)
(* with a non-empty condition_name: a raw record is kept if and only if it *)
(* is a mapping with a non-empty condition_name, every other record is     *)
(* dropped at load time without failing the load, and the relative order   *)
(* of the kept records is preserved.                                       *)
(***************************************************************************)
C14_ValidRecordsKept ==
    /\ \A i \in 1..Len(raw_kb) : ValidRecord(raw_kb[i])
    /\ (Constructed /\ kb_file.t = "list")
            => /\ init_error \notin LoadErrors
               /\ init_error = NoError
                    => raw_kb = SelectSeq(kb_file.items, ValidRecord)

\* __init__ has loaded a file of three elements whose second has an empty
\* condition_name: the first and the third are held, in this order
C14_Witness ==
    /\ boot = "constructed"
    /\ init_error = NoError
    /\ kb_file = JList(<<eCold, rEmptyName, eFlu>>)
    /\ raw_kb = <<eCold, eFlu>>

(***************************************************************************)
(* C15: generate() leaves the knowledge base, the name -> entry map and    *)
(* the index unchanged: after any sequence of generate() calls, whatever   *)
(* path each took, these are equal to their value at construction, so the  *)
(* result of a query does not depend on which queries ran before it.       *)
(***************************************************************************)
C15_Step == boot = "serving" => construction' = construction

C15_ReadOnly == [][C15_Step]_vars

\* a request has been answered 200 and a later call of generate() has come
\* back from the fallback: the map and the index are those of construction
C15_Witness ==
    /\ status = "200"
    /\ pc = "DONE"
    /\ Visited("FALLBACK")
    /\ raw_kb # <<>>
    /\ condition_by_name = BuildConditionByName(raw_kb)
    /\ vector_store = create_vector_store_from_items(raw_kb)

(***************************************************************************)
(* C16: for any interleaving of two or more generate() calls running       *)
(* concurrently on the same generator without locks, each call returns the *)
(* result it would return when run alone with the same retriever and       *)
(* backend answers; no call observes the medications, the context or the   *)
(* condition of another call.                                              *)
(***************************************************************************)
C16_Isolated ==
    /\ Returned
        => result = generate_alone(transcription, retrieved_docs, llm_response)
    /\ (parked # NoFrame /\ parked.pc \in {"DONE", "FAILED"})
        => parked.result = generate_alone(parked.transcription, parked.retrieved_docs,
                                          parked.llm_response)
    /\ (pc \in {"GENERATING", "FALLBACK"} /\ medications # JList(<<>>))
        => (llm_response.kind = "value" /\ medications = llm_response.value.medications)

\* one thread has come back from the fallback with its medications while the
\* other, on another query and another entry, is held in FALLBACK with the
\* null its backend answered
C16_Witness ==
    /\ pc = "DONE"
    /\ Visited("FALLBACK")
    /\ result.medications.items # <<>>
    /\ parked # NoFrame
    /\ parked.pc = "FALLBACK"
    /\ parked.medications = JNull
    /\ parked.transcription # transcription
    /\ parked.full_context # full_context

(***************************************************************************)
(* Scheduling: the statements of generate() run to their end once the      *)
(* interpreter is in them; the retriever is a local index.  The answer of   *)
(* the backend is awaited by a client built without a timeout (line 50),   *)
(* so nothing obliges ChainAnswers ever to happen.                         *)
(***************************************************************************)
FairSpec ==
    /\ Spec
    /\ WF_vars(Resolve)
    /\ WF_vars(InvokeChain)
    /\ WF_vars(Fallback)

(***************************************************************************)
(* C17: a generation backend that never answers cannot stall a query       *)
(* forever: the generation call is bounded by a timeout that is turned     *)
(* into a generation failure, so every generate() call that reached        *)
(* GENERATING eventually reaches DONE (through FALLBACK if needed).        *)
(***************************************************************************)
C17_GenerationEnds == (pc = "GENERATING") ~> (pc = "DONE")

(***************************************************************************)
(* C18: within one generate() call the generation backend is invoked at    *)
(* most once: after a generation failure the call goes straight to the     *)
(* fallback formatter and never invokes the backend a second time.         *)
(***************************************************************************)
C18_SingleAttempt ==
    /\ llm_calls <= 1
    /\ Cardinality({i \in 1..Len(path) : path[i] = "GENERATING"}) <= 1
    /\ \A i \in 1..Len(path) :
            path[i] = "FALLBACK" => (i > 1 /\ path[i - 1] = "GENERATING")
    /\ Visited("FALLBACK") => (llm_calls = 1 /\ ~awaiting)

\* the backend raised, the fallback ran and the call is done: the chain was
\* invoked once
C18_Witness ==
    /\ pc = "DONE"
    /\ llm_response.kind = "raise"
    /\ path = <<"RESOLVING", "GENERATING", "FALLBACK", "DONE">>
    /\ llm_calls = 1
    /\ fmt_calls >= 1

(***************************************************************************)
(* C19: a knowledge-base load failure or a backend configuration failure   *)
(* at startup aborts startup: the service never reaches the state in which *)
(* it accepts requests while the RAG generator is not initialised.         *)
(***************************************************************************)
C19_StartupAborts ==
    (boot = "serving") => (rag_generator = Generator /\ init_error = NoError)

(***************************************************************************)
(* C20: the linear fallback scan visits entries in knowledge-base order    *)
(* and, for each entry in turn, returns it if its condition name is a      *)
(* substring of the lower-cased query and otherwise if one of its symptoms *)
(* is a substring; so when an earlier entry matches only by symptom and a  *)
(* later entry matches by name, the scan returns the earlier entry.        *)
(***************************************************************************)
\* the entry's lower-cased name occurs in the lower-cased text
MatchesByName(item, text) ==
    LET name == lower(Get(item, "condition_name", <<>>))
    IN  name # <<>> /\ contains(lower(text), name)

\* one of the entry's symptoms does
MatchesBySymptom(item, text) ==
    \E s \in Range(Get(item, "symptoms", <<>>)) :
        s # <<>> /\ contains(lower(text), lower(s))

C20_ScanInEntryOrder ==
    (Resolved /\ resolved_by = "scan")
        => \E i \in 1..Len(raw_kb) :
            /\ full_context = raw_kb[i]
            /\ MatchesByName(raw_kb[i], transcription)
                    \/ MatchesBySymptom(raw_kb[i], transcription)
            /\ \A j \in 1..(i - 1) :
                    /\ ~MatchesByName(raw_kb[j], transcription)
                    /\ ~MatchesBySymptom(raw_kb[j], transcription)

(***************************************************************************)
(* C21: on the FALLBACK path the medication list is built by calling the   *)
(* fallback formatter exactly once for each element of the entry's         *)
(* suggested_drugs, in order: the list has the same length as              *)
(* suggested_drugs and its i-th medication has the i-th drug's name with   *)
(* that name's table defaults; no suggested drug is skipped.               *)
(***************************************************************************)
C21_OncePerDrug ==
    (pc = "DONE" /\ Visited("FALLBACK"))
        => /\ fmt_calls = Len(suggested_drugs)
           /\ Len(result.medications.items) = Len(suggested_drugs)
           /\ \A i \in 1..Len(suggested_drugs) :
                LET n == Get(suggested_drugs[i], "name", "")
                IN  result.medications.items[i]
                        = WithName(n, get_default_medication_details(n))

(***************************************************************************)
(* C22: resolution short-circuits on the first success: when the top       *)
(* semantic hit's normalised condition name is a key of the name map,      *)
(* generate() uses that entry and never runs the substring scan, even when *)
(* the query text literally contains the name or a symptom of a different  *)
(* entry.                                                                  *)
(***************************************************************************)
\* the key the top document of the retriever's answer leads to
TopKey == normalize(Get(retrieved_docs.docs[1], "condition_name", sUnknown))

C22_ShortCircuit ==
    (pc # "RESOLVING" /\ retrieved_docs.docs # <<>> /\ TopKey \in DOMAIN condition_by_name)
        => /\ resolved_by = "map"
           /\ full_context = condition_by_name[TopKey]
           /\ condition_name = retrieved_docs.docs[1].condition_name

\* the top hit is an entry of the map while the scan of the query would find
\* another entry: the entry of the top hit is used
C22_Witness ==
    /\ pc = "DONE"
    /\ retrieved_docs.docs # <<>>
    /\ TopKey \in DOMAIN condition_by_name
    /\ find_best_by_text(raw_kb, transcription) # NoEntry
    /\ find_best_by_text(raw_kb, transcription) # condition_by_name[TopKey]
    /\ full_context = condition_by_name[TopKey]
    /\ result.condition = retrieved_docs.docs[1].condition_name

(***************************************************************************)
(* C23: when the semantic query itself fails during generate() (the        *)
(* embedding backend raises or times out), resolution falls back to the    *)
(* substring scan over the knowledge base, so a query that contains a      *)
(* known condition name or symptom still yields a non-error result.        *)
(***************************************************************************)
C23_RetrieverFailureScanned ==
    (Returned /\ retrieved_docs.raised
        /\ find_best_by_text(raw_kb, transcription) # NoEntry)
        => (IsResult(result) /\ ~IsError(result))

(***************************************************************************)
(* C24: in every non-error result of generate() the 'condition' field      *)
(* equals the condition_name of the very knowledge-base entry from which   *)
(* general_advice and the drug list of that result were taken (the result  *)
(* never combines the name of one record with the advice or drugs of       *)
(* another).                                                               *)
(***************************************************************************)
C24_ConditionOfEntry ==
    (Returned /\ IsResult(result))
        => /\ full_context \in Range(raw_kb)
           /\ result.general_advice = Get(full_context, "general_advice", DefaultAdvice)
           /\ result.condition = full_context.condition_name

(***************************************************************************)
(* C25: in a generator whose index and name map were built from the same   *)
(* loaded knowledge base, the normalised condition_name of every indexed   *)
(* document is a key of the name map; hence whenever the retriever returns *)
(* at least one document (of that index) the rehydration lookup succeeds   *)
(* and _find_best_by_text is never called.                                 *)
(***************************************************************************)
C25_IndexedNamesAreKeys ==
    /\ rag_generator = Generator
        => /\ Len(vector_store) = Len(raw_kb)
           /\ \A i \in 1..Len(vector_store) :
                /\ vector_store[i].condition_name = raw_kb[i].condition_name
                /\ normalize(vector_store[i].condition_name) \in DOMAIN condition_by_name
    /\ (pc # "RESOLVING" /\ retrieved_docs.docs # <<>>
            /\ retrieved_docs.docs[1] \in Range(vector_store))
        => (resolved_by = "map" /\ full_context = condition_by_name[TopKey])

\* the top hit is the document of the record named "flu ", whose key needs
\* trimming: the lookup has succeeded
C25_Witness ==
    /\ pc = "DONE"
    /\ retrieved_docs.docs # <<>>
    /\ retrieved_docs.docs[1] \in Range(vector_store)
    /\ retrieved_docs.docs[1].condition_name = sfluSp
    /\ resolved_by = "map"
    /\ full_context = eFluDup

FormattedDrugs ==
    LET names == NamedDrugs(suggested_drugs)
    IN  [i \in 1..Len(names) |->
            WithName(names[i], get_default_medication_details(names[i]))]

C27_OneProducer ==
    /\ (Returned /\ IsResult(result))
        => IF Visited("FALLBACK")
           THEN result.medications = JList(FormattedDrugs)
           ELSE IF Visited("GENERATING")
           THEN /\ llm_response.kind = "value"
                /\ HasMedicationsKey(llm_response.value)
                /\ result.medications = llm_response.value.medications
                /\ fmt_calls = 0
           ELSE result.medications = JList(<<>>)
    /\ pc = "FALLBACK" => medications \in {JList(<<>>), JNull, JInt}

\* the backend answered with a medication, in a list that is not an object
\* with a 'medications' key, and the returned list holds the formatted drugs
\* of the entry only
C27_Witness ==
    /\ pc = "DONE"
    /\ Visited("FALLBACK")
    /\ llm_response = Returns(JList(<<LlmMed("Ibuprofen")>>))
    /\ result.medications.items # <<>>
    /\ result.medications = JList(FormattedDrugs)

(***************************************************************************)
(* C28: POST /generate-prescription delivers the status it raises: an      *)
(* empty transcription is answered with 400, an uninitialised RAG          *)
(* generator with 503, and only other failures with 500; the 400 and 503   *)
(* are never replaced by a 500.                                            *)
(***************************************************************************)
\* a request is answered without generate() being entered
Rejected == boot = "serving" /\ pc = "idle" /\ pc' = "idle" /\ status' # status

C28_Step ==
    /\ Rejected => status' \in {"400", "503"}
    /\ (Rejected /\ rag_generator = Generator) => status' = "400"
    /\ (boot = "serving" /\ status' # status /\ status' = "500") => Returned

C28_StatusDelivered == [][C28_Step]_vars

(***************************************************************************)
(* C29: the list returned by check_drug_interactions holds at most one     *)
(* record per unordered pair of drugs: an interaction already found in the *)
(* static table for (a, b) is not added again when the LLM analysis        *)
(* reports the same pair in either order or in different letter case, and  *)
(* the table lookup finds a pair whichever order the two drugs were given  *)
(* in.                                                                     *)
(***************************************************************************)
\* the unordered pair a record is about
PairOf(r) ==
    {strip(lower(Get(r, "drug1", <<>>))), strip(lower(Get(r, "drug2", <<>>)))}

\* the table has an entry for the two names, in one order or the other
InTable(a, b) ==
    \/ <<strip(lower(a)), strip(lower(b))>> \in DOMAIN known_interactions
    \/ <<strip(lower(b)), strip(lower(a))>> \in DOMAIN known_interactions

C29_OnePerPair ==
    interactions_pc = "returned"
        => /\ \A i, j \in 1..Len(interactions) :
                i < j => PairOf(interactions[i]) # PairOf(interactions[j])
           /\ \A i, j \in 1..Len(drugs) :
                (i < j /\ InTable(drugs[i], drugs[j]))
                    => \E k \in 1..Len(interactions) :
                          /\ interactions[k].drug1 = drugs[i]
                          /\ interactions[k].drug2 = drugs[j]
                          /\ interactions[k].severity = "High"

(***************************************************************************)
(* C30: whenever analyze_symptoms(symptoms, age) cannot use the LLM's      *)
(* answer (the call raises, or the response holds no parsable JSON         *)
(* object), it returns the fallback analysis computed for the caller's     *)
(* age: for age < 18 the recommended dosage is the per-kg child dosage,    *)
(* never the adult 500mg dosage.                                           *)
(***************************************************************************)
\* some part of the text is a JSON object
HoldsObject(text) ==
    \E i, j \in 1..Len(text) :
        i <= j /\ json_loads(SubSeq(text, i, j)).kind = "value"

Unusable ==
    \/ response.kind = "raise"
    \/ response.kind = "value" /\ ~HoldsObject(response.value)

C30_FallbackForAge ==
    (analysis_pc = "returned" /\ Unusable)
        => /\ analysis = fallback_analysis(<<>>, age)
           /\ age < 18
                => analysis.recommended_drugs[1].dosage = "10-15mg/kg every 6-8 hours"

====
